---- MODULE Spec2Model ----
(***************************************************************************)
(* LottieFlow (App component, src/unnamed/part_000; types, src/types.ts).  *)
(*                                                                         *)
(* The component is modelled as a state machine whose steps are the event  *)
(* handlers and asynchronous callbacks of the component.  JavaScript runs  *)
(* each handler to completion, and React (batched updates) re-renders and  *)
(* flushes the effects of that render before the next handler's updates    *)
(* are rendered, so one action is: the handler, the re-render, the cleanup *)
(* of the session effect and the effect itself.                            *)
(*                                                                         *)
(* The render engine (`lottie`, declared at line 21) and the text service  *)
(* (GoogleGenAI) are collaborators: the engine is modelled as the list of  *)
(* instances it has created together with the calls made on it, the text   *)
(* service as the list of requests that have not resolved yet.             *)
(***************************************************************************)
EXTENDS Naturals, Sequences, FiniteSets, Bags

\* ------------------------------------------------------------------ bounds

\* The number of file reads that may be pending at once.
MaxReads == 2
\* The number of engine instances created in one run.
MaxInstances == 3
\* The number of analysis requests handleAnalyze may have in flight.
MaxRequests == 2

\* --------------------------------------------------------- JavaScript values

\* null / undefined are the empty sequence, a present value v is <<v>>.
None == <<>>
Some(v) == <<v>>

\* The values JSON.parse returns here: the value null, or an
\* object with the top-level fields the component reads.  A field the object
\* does not have reads as undefined (None).
JSNull ==
  [kind |-> "null", fr |-> None, ip |-> None, op |-> None, w |-> None,
   h |-> None, layers |-> None]

DocA ==
  [kind |-> "object", fr |-> Some(30), ip |-> Some(0), op |-> Some(90),
   w |-> Some(512), h |-> Some(512), layers |-> Some(<<"a", "b", "c">>)]

DocB ==
  [kind |-> "object", fr |-> Some(60), ip |-> Some(10), op |-> Some(120),
   w |-> Some(100), h |-> Some(200), layers |-> None]

\* The texts of the files.
TextA == "{fr:30,ip:0,op:90,w:512,h:512,layers:[a,b,c],v:5.1,assets:[]}"
TextB == "{fr:60,ip:10,op:120,w:100,h:200,v:5.1,assets:[]}"
TextNull == "null"
TextBad == "{fr:30,ip:0"

\* JSON.parse: the parsed value, or a SyntaxError (ok = FALSE).
JSONparse(text) ==
  CASE text = TextA -> [ok |-> TRUE, value |-> DocA]
    [] text = TextB -> [ok |-> TRUE, value |-> DocB]
    [] text = TextNull -> [ok |-> TRUE, value |-> JSNull]
    [] OTHER -> [ok |-> FALSE, value |-> JSNull]

\* JavaScript truthiness of a parsed value.
Truthy(v) == v.kind = "object"

\* A property read (json.fr) throws a TypeError on null, and on nothing else.
ReadThrows(v) == v.kind = "null"

\* Object.is(old, new) for the value new that JSON.parse has just returned:
\* each JSON.parse of an object text returns a new object, which is identical
\* to no value held before; null is identical to null.
SameValue(old, new) == new.kind # "object" /\ old = new

\* ------------------------------------------------------------------- files

FileA == [name |-> "a.json", size |-> 2048, text |-> TextA]
FileB == [name |-> "b.json", size |-> 1024, text |-> TextB]
FileNull == [name |-> "null.json", size |-> 4, text |-> TextNull]
FileBad == [name |-> "bad.json", size |-> 11, text |-> TextBad]

\* The files the user selects from.
Files == {FileA, FileB, FileNull, FileBad}

\* A file is held in the state by its name.
FileNames == {f.name : f \in Files}
FileNamed(name) == CHOOSE f \in Files : f.name = name
NoFile == ""

\* ---------------------------------------------------------------- settings

SpeedValues == {1, 2}
RendererOptions == {"svg", "canvas"}
BackgroundColors == {"#ffffff", "#000000"}

InitialSettings ==
  [loop |-> TRUE, speed |-> 1, backgroundColor |-> "#ffffff", renderer |-> "svg"]

\* ------------------------------------------------------------------- state

VARIABLES
  animationData,         \* useState: the loaded document (JSNull at start)
  metadata,              \* useState: None or Some(LottieMetadata)
  isPlaying,             \* useState
  isAnalyzing,           \* useState
  analysis,              \* useState: None or Some(text)
  settings,              \* useState: AnimationSettings
  animationInstanceRef,  \* useRef: 0 (null) or the index of an instance
  instances,             \* the engine: every instance created so far
  fileInput,             \* the file input element: the file selected last
  reads,                 \* FileReader: the bag of reads not resolved yet
  requests,              \* the text service: the requests not resolved yet
  engineCalls,           \* the calls the last step made on the engine
  signals,               \* what the last step raised: "alert", "console.error"
  response,              \* the text the service returned to the last step
  lastOp                 \* the handler or callback that ran last

vars ==
  <<animationData, metadata, isPlaying, isAnalyzing, analysis, settings,
    animationInstanceRef, instances, fileInput, reads, requests, engineCalls,
    signals, response, lastOp>>

NullRef == 0

\* ------------------------------------------------------- the render engine

\* One call on the engine: loadAnimation, or a method of instance id.
Call(op, id, arg) == [op |-> op, id |-> id, arg |-> arg]

\* lottie.loadAnimation({container, renderer, loop, autoplay: true,
\* animationData}): a new instance, playing (autoplay), at the engine's
\* default speed 1.
NewInstance(renderer, loop, data) ==
  [alive |-> TRUE, play |-> "playing", renderer |-> renderer, loop |-> loop,
   speed |-> 1, data |-> data]

\* instance.destroy() releases the instance: it no longer renders, and holds
\* neither its document nor its configuration.  A second destroy() changes
\* nothing.
Destroyed ==
  [alive |-> FALSE, play |-> "destroyed", renderer |-> "none", loop |-> FALSE,
   speed |-> 0, data |-> JSNull]

EngineDestroy(insts, id) == [insts EXCEPT ![id] = Destroyed]

\* play / pause / stop / goToAndPlay / setSpeed act on an instance that has
\* not been destroyed.
EngineSetPlay(insts, id, play) ==
  IF insts[id].alive THEN [insts EXCEPT ![id].play = play] ELSE insts

EngineSetSpeed(insts, id, speed) ==
  IF insts[id].alive THEN [insts EXCEPT ![id].speed = speed] ELSE insts

\* The instances that have been created and not destroyed.
LiveInstances(insts) == {i \in 1..Len(insts) : insts[i].alive}

\* --------------------------------------------------- the session lifecycle

\* What the effect and the handlers read and write while they run: the ref,
\* the engine, the calls made so far in this step, and the isPlaying state.
Session(ref, insts, calls, playing) ==
  [ref |-> ref, insts |-> insts, calls |-> calls, isPlaying |-> playing]

\* if (animationInstanceRef.current) animationInstanceRef.current.destroy();
\* the ref keeps pointing at the destroyed instance.
destroyCurrent(e) ==
  IF e.ref # NullRef
    THEN [e EXCEPT !.insts = EngineDestroy(@, e.ref),
                   !.calls = Append(@, Call("destroy", e.ref, 0))]
    ELSE e

\* <div ref={containerRef}> is rendered exactly when animationData is truthy,
\* and refs are attached before the effects of that render run.
containerRef(data) == Truthy(data)

\* initAnimation without setIsPlaying(true): the flag keeps its value.
initAnimation_keepsFlag(e, data, s) ==
  LET d == destroyCurrent(e)
      id == Len(d.insts) + 1
  IN  IF containerRef(data) /\ Truthy(data)
        THEN [ref |-> id,
              insts |-> EngineSetSpeed(
                          Append(d.insts, NewInstance(s.renderer, s.loop, data)),
                          id, s.speed),
              calls |-> d.calls \o <<Call("loadAnimation", id, 0),
                                     Call("setSpeed", id, s.speed)>>,
              isPlaying |-> d.isPlaying]
        ELSE d

\* initAnimation that creates the new instance first and then destroys what
\* the ref holds.
initAnimation_destroyAfter(e, data, s) ==
  LET id == Len(e.insts) + 1
  IN  IF containerRef(data) /\ Truthy(data)
        THEN destroyCurrent(
               [ref |-> id,
                insts |-> EngineSetSpeed(
                            Append(e.insts, NewInstance(s.renderer, s.loop, data)),
                            id, s.speed),
                calls |-> e.calls \o <<Call("loadAnimation", id, 0),
                                       Call("setSpeed", id, s.speed)>>,
                isPlaying |-> TRUE])
        ELSE destroyCurrent(e)

\* initAnimation(data), closed over the settings of the render s.
initAnimation(e, data, s) ==
  LET d == destroyCurrent(e)
      id == Len(d.insts) + 1
  IN  IF containerRef(data) /\ Truthy(data)
        THEN [ref |-> id,
              insts |-> EngineSetSpeed(
                          Append(d.insts, NewInstance(s.renderer, s.loop, data)),
                          id, s.speed),
              calls |-> d.calls \o <<Call("loadAnimation", id, 0),
                                     Call("setSpeed", id, s.speed)>>,
              isPlaying |-> TRUE]
        ELSE d

\* The cleanup of the session effect.
effectCleanup(e) == destroyCurrent(e)

\* useCallback dependencies that also hold settings.backgroundColor.
initAnimationChanged_withBackground(old, new) ==
  \/ old.loop # new.loop \/ old.speed # new.speed \/ old.renderer # new.renderer
  \/ old.backgroundColor # new.backgroundColor

\* useCallback dependencies without settings.loop.
initAnimationChanged_noLoop(old, new) ==
  old.speed # new.speed \/ old.renderer # new.renderer

\* initAnimation is a new function exactly when settings.loop, settings.speed
\* or settings.renderer differ from the previous render (useCallback deps).
initAnimationChanged(old, new) ==
  old.loop # new.loop \/ old.speed # new.speed \/ old.renderer # new.renderer

\* A session effect that only creates: it never tears the previous session
\* down.
useEffect_noTeardown(e, dataChanged, newData, oldSettings, newSettings) ==
  IF (dataChanged \/ initAnimationChanged(oldSettings, newSettings))
       /\ Truthy(newData)
    THEN LET id == Len(e.insts) + 1
         IN  [ref |-> id,
              insts |-> Append(e.insts,
                          NewInstance(newSettings.renderer, newSettings.loop, newData)),
              calls |-> Append(e.calls, Call("loadAnimation", id, 0)),
              isPlaying |-> TRUE]
    ELSE e

\* useEffect(..., [animationData, initAnimation]) after a re-render: when a
\* dependency changed (dataChanged: animationData is not the value of the
\* previous render), the previous effect's cleanup runs and then the effect.
useEffect(e, dataChanged, newData, oldSettings, newSettings) ==
  IF dataChanged \/ initAnimationChanged(oldSettings, newSettings)
    THEN LET c == effectCleanup(e)
         IN  IF Truthy(newData) THEN initAnimation(c, newData, newSettings) ELSE c
    ELSE e

\* The session as a handler finds it.
Current == Session(animationInstanceRef, instances, <<>>, isPlaying)

\* The session as a step leaves it.
Commit(e) ==
  /\ animationInstanceRef' = e.ref
  /\ instances' = e.insts
  /\ engineCalls' = e.calls
  /\ isPlaying' = e.isPlaying

\* A step that may create an instance is taken only below the bound.
BelowInstanceBound == Len(instances) < MaxInstances

\* The values the state of the component takes.
TypeOK ==
  /\ animationData \in {JSNull, DocA, DocB}
  /\ metadata = None \/ (Len(metadata) = 1 /\ metadata[1].name \in FileNames)
  /\ isPlaying \in BOOLEAN
  /\ isAnalyzing \in BOOLEAN
  /\ analysis = None \/ Len(analysis) = 1
  /\ settings.loop \in BOOLEAN
  /\ settings.speed \in SpeedValues
  /\ settings.backgroundColor \in BackgroundColors
  /\ settings.renderer \in RendererOptions
  /\ animationInstanceRef \in 0..Len(instances)
  /\ Len(instances) <= MaxInstances
  /\ fileInput \in FileNames \cup {NoFile}
  /\ BagCardinality(reads) <= MaxReads
  /\ Len(requests) <= MaxRequests
  /\ signals \subseteq {"alert", "console.error"}
  /\ response = None \/ Len(response) = 1

\* -------------------------------------------------------------------- Init

Init ==
  /\ animationData = JSNull
  /\ metadata = None
  /\ isPlaying = TRUE
  /\ isAnalyzing = FALSE
  /\ analysis = None
  /\ settings = InitialSettings
  /\ animationInstanceRef = NullRef
  /\ instances = <<>>
  /\ fileInput = NoFile
  /\ reads = EmptyBag
  /\ requests = <<>>
  /\ engineCalls = <<>>
  /\ signals = {}
  /\ response = None
  /\ lastOp = "mount"

\* ------------------------------------------------------------ file upload

\* handleFileUpload: the change event of the file input fires when the
\* selection changes; the file is read asynchronously.
handleFileUpload(file) ==
  /\ file.name # fileInput
  /\ BagCardinality(reads) < MaxReads
  /\ fileInput' = file.name
  /\ reads' = reads (+) SetToBag({file.name})
  /\ engineCalls' = <<>>
  /\ signals' = {}
  /\ lastOp' = "handleFileUpload"
  /\ response' = None
  /\ UNCHANGED <<animationData, metadata, isPlaying, isAnalyzing, analysis,
                 settings, animationInstanceRef, instances, requests>>

RemoveAt(seq, i) == SubSeq(seq, 1, i - 1) \o SubSeq(seq, i + 1, Len(seq))

\* json.layers?.length || 0
layersCount(json) ==
  IF json.layers = None THEN 0
  ELSE IF Len(json.layers[1]) = 0 THEN 0 ELSE Len(json.layers[1])

\* setMetadata with w and h taken from each other's field.
deriveMetadata_swapped(file, json) ==
  [name |-> file.name, size |-> file.size, fr |-> json.fr, ip |-> json.ip,
   op |-> json.op, w |-> json.h, h |-> json.w, layers |-> layersCount(json)]

\* The object passed to setMetadata.
deriveMetadata(file, json) ==
  [name |-> file.name, size |-> file.size, fr |-> json.fr, ip |-> json.ip,
   op |-> json.op, w |-> json.w, h |-> json.h, layers |-> layersCount(json)]

\* The try block of reader.onload without setAnalysis(null).
onloadUpdates_keepsAnalysis(file, data, meta, result) ==
  LET p == JSONparse(file.text)
  IN  IF ~p.ok
        THEN [animationData |-> data, metadata |-> meta, analysis |-> result,
              alert |-> TRUE]
      ELSE IF ReadThrows(p.value)
        THEN [animationData |-> p.value, metadata |-> meta, analysis |-> result,
              alert |-> TRUE]
      ELSE [animationData |-> p.value,
            metadata |-> Some(deriveMetadata(file, p.value)),
            analysis |-> result, alert |-> FALSE]

\* The try block of reader.onload: the state updates queued before the block
\* ends or throws, and whether the catch block raised the alert.
\*   JSON.parse throws            -> nothing is queued
\*   reading json.fr throws       -> setAnimationData(json) is queued already
\*   otherwise                    -> all three updates are queued
onloadUpdates(file, data, meta, result) ==
  LET p == JSONparse(file.text)
  IN  IF ~p.ok
        THEN [animationData |-> data, metadata |-> meta, analysis |-> result,
              alert |-> TRUE]
      ELSE IF ReadThrows(p.value)
        THEN [animationData |-> p.value, metadata |-> meta, analysis |-> result,
              alert |-> TRUE]
      ELSE [animationData |-> p.value,
            metadata |-> Some(deriveMetadata(file, p.value)),
            analysis |-> None, alert |-> FALSE]

\* reader.onload of a pending read of file, then the re-render and the effect.
readerOnload(file) ==
  /\ BagIn(file.name, reads)
  /\ BelowInstanceBound
  /\ LET u == onloadUpdates(file, animationData, metadata, analysis)
     IN  /\ animationData' = u.animationData
         /\ metadata' = u.metadata
         /\ analysis' = u.analysis
         /\ signals' = IF u.alert THEN {"alert"} ELSE {}
         /\ Commit(useEffect(Current, ~SameValue(animationData, u.animationData),
                             u.animationData, settings, settings))
  /\ reads' = reads (-) SetToBag({file.name})
  /\ lastOp' = "readerOnload"
  /\ response' = None
  /\ UNCHANGED <<isAnalyzing, settings, fileInput, requests>>

\* -------------------------------------------------------------- transport

\* The transport and settings controls are rendered when animationData is
\* truthy.
ControlsVisible == Truthy(animationData)

\* A handler that queues no update that changes a dependency of the effect:
\* the step ends with the session as the handler left it.
NoUpload == UNCHANGED <<animationData, metadata, fileInput, reads>>

\* handlePlayPause that toggles isPlaying whether or not the ref holds an
\* instance.
handlePlayPause_unguarded ==
  /\ Commit(
       [Current EXCEPT
          !.insts = IF animationInstanceRef = NullRef THEN @
                    ELSE EngineSetPlay(@, animationInstanceRef,
                           IF isPlaying THEN "paused" ELSE "playing"),
          !.calls = IF animationInstanceRef = NullRef THEN <<>>
                    ELSE <<Call(IF isPlaying THEN "pause" ELSE "play",
                                animationInstanceRef, 0)>>,
          !.isPlaying = ~isPlaying])
  /\ signals' = {}
  /\ lastOp' = "handlePlayPause"
  /\ response' = None
  /\ NoUpload
  /\ UNCHANGED <<isAnalyzing, analysis, settings, requests>>

handlePlayPause ==
  /\ IF animationInstanceRef = NullRef
       THEN Commit(Current)
       ELSE Commit(
              [Current EXCEPT
                 !.insts = EngineSetPlay(@, animationInstanceRef,
                             IF isPlaying THEN "paused" ELSE "playing"),
                 !.calls = <<Call(IF isPlaying THEN "pause" ELSE "play",
                                  animationInstanceRef, 0)>>,
                 !.isPlaying = ~isPlaying])
  /\ signals' = {}
  /\ lastOp' = "handlePlayPause"
  /\ response' = None
  /\ NoUpload
  /\ UNCHANGED <<isAnalyzing, analysis, settings, requests>>

handleStop ==
  /\ IF animationInstanceRef = NullRef
       THEN Commit(Current)
       ELSE Commit(
              [Current EXCEPT
                 !.insts = EngineSetPlay(@, animationInstanceRef, "stopped"),
                 !.calls = <<Call("stop", animationInstanceRef, 0)>>,
                 !.isPlaying = FALSE])
  /\ signals' = {}
  /\ lastOp' = "handleStop"
  /\ response' = None
  /\ NoUpload
  /\ UNCHANGED <<isAnalyzing, analysis, settings, requests>>

\* The Restart button: goToAndPlay(0); isPlaying is not set.
restart ==
  /\ IF animationInstanceRef = NullRef
       THEN Commit(Current)
       ELSE Commit(
              [Current EXCEPT
                 !.insts = EngineSetPlay(@, animationInstanceRef, "playing"),
                 !.calls = <<Call("goToAndPlay", animationInstanceRef, 0)>>])
  /\ signals' = {}
  /\ lastOp' = "restart"
  /\ response' = None
  /\ NoUpload
  /\ UNCHANGED <<isAnalyzing, analysis, settings, requests>>

\* The Play/Pause, Stop and Restart buttons.
clickPlayPause == ControlsVisible /\ handlePlayPause

clickStop == ControlsVisible /\ handleStop

clickRestart == ControlsVisible /\ restart

\* ---------------------------------------------------------------- settings

\* The speed setter applied to the live instance by handleSpeedChange.
applySpeed(e, speed) ==
  IF e.ref # NullRef
    THEN [e EXCEPT !.insts = EngineSetSpeed(@, e.ref, speed),
                   !.calls = Append(@, Call("setSpeed", e.ref, speed))]
    ELSE e

\* handleSpeedChange(speed), then the re-render with the new settings and the
\* session effect.
handleSpeedChange(speed) ==
  /\ BelowInstanceBound
  /\ settings' = [settings EXCEPT !.speed = speed]
  /\ Commit(useEffect(applySpeed(Current, speed), FALSE, animationData,
                      settings, settings'))
  /\ signals' = {}
  /\ lastOp' = "handleSpeedChange"
  /\ response' = None
  /\ NoUpload
  /\ UNCHANGED <<isAnalyzing, analysis, requests>>

\* The speed slider: onChange fires when the value changes.
changeSpeed(speed) ==
  /\ ControlsVisible
  /\ speed # settings.speed
  /\ handleSpeedChange(speed)

\* The Looping button.
toggleLoop ==
  /\ ControlsVisible
  /\ BelowInstanceBound
  /\ settings' = [settings EXCEPT !.loop = ~settings.loop]
  /\ Commit(useEffect(Current, FALSE, animationData, settings, settings'))
  /\ signals' = {}
  /\ lastOp' = "toggleLoop"
  /\ response' = None
  /\ NoUpload
  /\ UNCHANGED <<isAnalyzing, analysis, requests>>

\* The renderer select.
selectRenderer(renderer) ==
  /\ ControlsVisible
  /\ BelowInstanceBound
  /\ renderer # settings.renderer
  /\ settings' = [settings EXCEPT !.renderer = renderer]
  /\ Commit(useEffect(Current, FALSE, animationData, settings, settings'))
  /\ signals' = {}
  /\ lastOp' = "selectRenderer"
  /\ response' = None
  /\ NoUpload
  /\ UNCHANGED <<isAnalyzing, analysis, requests>>

\* The background color input.
setBackgroundColor(color) ==
  /\ ControlsVisible
  /\ color # settings.backgroundColor
  /\ settings' = [settings EXCEPT !.backgroundColor = color]
  /\ Commit(useEffect(Current, FALSE, animationData, settings, settings'))
  /\ signals' = {}
  /\ lastOp' = "setBackgroundColor"
  /\ response' = None
  /\ NoUpload
  /\ UNCHANGED <<isAnalyzing, analysis, requests>>

\* ---------------------------------------------------------------- analysis

CouldNotAnalyze == "Could not analyze the animation."
AnalysisFailed == "AI Analysis failed. Check your API key or network."

\* The texts the service returns (response.text), and its failure.
ResponseTexts == {"", "A looping spinner."}
Outcomes ==
  {[ok |-> TRUE, text |-> t] : t \in ResponseTexts} \cup {[ok |-> FALSE, text |-> ""]}

\* The prompt of a request: metadata?.layers, metadata?.fr and the summary of
\* the document.
Prompt(data, meta) ==
  [layers |-> meta[1].layers, fr |-> meta[1].fr,
   summary |-> [fr |-> data.fr, w |-> data.w, h |-> data.h,
                layersCount |-> IF data.layers = None THEN None
                                ELSE Some(Len(data.layers[1]))]]

\* The AI Analysis button is rendered in the metadata card.
AnalyzeButtonRendered == metadata # None

\* A button that is never disabled.
AnalyzeButtonDisabled_never == FALSE

\* disabled={isAnalyzing}
AnalyzeButtonDisabled == isAnalyzing

\* The catch and finally blocks of handleAnalyze after a failure that leave the
\* pending flag set.
settleAnalysis_noFinally(outcome) ==
  IF outcome.ok
    THEN [analysis |-> Some(IF outcome.text = "" THEN CouldNotAnalyze ELSE outcome.text),
          isAnalyzing |-> FALSE, signals |-> {}]
    ELSE [analysis |-> Some(AnalysisFailed), isAnalyzing |-> TRUE,
          signals |-> {"console.error"}]

\* setAnalysis(response.text) without the substitute.
settleAnalysis_verbatim(outcome) ==
  IF outcome.ok
    THEN [analysis |-> Some(outcome.text), isAnalyzing |-> FALSE, signals |-> {}]
    ELSE [analysis |-> Some(AnalysisFailed), isAnalyzing |-> FALSE,
          signals |-> {"console.error"}]

\* What handleAnalyze does once the try block has ended: setAnalysis with the
\* text or the substitute (response.text || ...), or the catch block; then the
\* finally block.
settleAnalysis(outcome) ==
  IF outcome.ok
    THEN [analysis |-> Some(IF outcome.text = "" THEN CouldNotAnalyze ELSE outcome.text),
          isAnalyzing |-> FALSE, signals |-> {}]
    ELSE [analysis |-> Some(AnalysisFailed), isAnalyzing |-> FALSE,
          signals |-> {"console.error"}]

\* handleAnalyze up to the await: either the client constructor throws and the
\* handler ends in this step, or the request is sent.
handleAnalyze(constructorThrows) ==
  /\ Len(requests) < MaxRequests
  /\ IF ~Truthy(animationData)
       THEN /\ signals' = {}
            /\ UNCHANGED <<isAnalyzing, analysis, requests>>
     ELSE IF constructorThrows
       THEN LET r == settleAnalysis([ok |-> FALSE, text |-> ""])
            IN  /\ analysis' = r.analysis
                /\ isAnalyzing' = r.isAnalyzing
                /\ signals' = r.signals
                /\ UNCHANGED requests
     ELSE /\ isAnalyzing' = TRUE
          /\ requests' = Append(requests, Prompt(animationData, metadata))
          /\ signals' = {}
          /\ UNCHANGED analysis
  /\ Commit(Current)
  /\ lastOp' = "handleAnalyze"
  /\ response' = None
  /\ NoUpload
  /\ UNCHANGED settings

\* A click on the AI Analysis button: a disabled button dispatches no click.
clickAnalyze(constructorThrows) ==
  /\ AnalyzeButtonRendered
  /\ IF AnalyzeButtonDisabled
       THEN UNCHANGED vars
       ELSE handleAnalyze(constructorThrows)

\* The awaited request i resolves with a text or fails; handleAnalyze resumes.
analyzeResolved(i, outcome) ==
  /\ i \in 1..Len(requests)
  /\ LET r == settleAnalysis(outcome)
     IN  /\ analysis' = r.analysis
         /\ isAnalyzing' = r.isAnalyzing
         /\ signals' = r.signals
  /\ requests' = RemoveAt(requests, i)
  /\ response' = (IF outcome.ok THEN Some(outcome.text) ELSE None)
  /\ Commit(Current)
  /\ lastOp' = "analyzeResolved"
  /\ NoUpload
  /\ UNCHANGED settings

\* -------------------------------------------------------------------- Next

Next ==
  \/ \E file \in Files : handleFileUpload(file)
  \/ \E file \in Files : readerOnload(file)
  \/ clickPlayPause
  \/ clickStop
  \/ clickRestart
  \/ \E speed \in SpeedValues : changeSpeed(speed)
  \/ toggleLoop
  \/ \E renderer \in RendererOptions : selectRenderer(renderer)
  \/ \E color \in BackgroundColors : setBackgroundColor(color)
  \/ \E constructorThrows \in BOOLEAN : clickAnalyze(constructorThrows)
  \/ \E i \in 1..MaxRequests + 1, outcome \in Outcomes : analyzeResolved(i, outcome)

Spec == Init /\ [][Next]_vars

\* ------------------------------------------------ the handlers called directly

\* The component unmounts: the cleanup of the session effect runs.
unmount ==
  /\ Commit(effectCleanup(Current))
  /\ signals' = {}
  /\ lastOp' = "unmount"
  /\ response' = None
  /\ NoUpload
  /\ UNCHANGED <<isAnalyzing, analysis, settings, requests>>

\* Nothing of the component runs once it has unmounted.
Mounted == lastOp # "unmount"

\* The handlers as functions of the component, called whether or not the
\* controls that dispatch them are rendered.
NextHandlers ==
  \/ \E file \in Files : Mounted /\ handleFileUpload(file)
  \/ \E file \in Files : Mounted /\ readerOnload(file)
  \/ Mounted /\ handlePlayPause
  \/ Mounted /\ handleStop
  \/ Mounted /\ restart
  \/ \E speed \in SpeedValues : Mounted /\ handleSpeedChange(speed)
  \/ Mounted /\ unmount

HandlerSpec == Init /\ [][NextHandlers]_vars

\* ============================================================== properties

IsLifecycleCall(c) == c.op \in {"destroy", "loadAnimation"}

\* The destroy and loadAnimation calls of a step, in order.
LifecycleCalls(calls) == SelectSeq(calls, IsLifecycleCall)

\* A session is active: the ref holds an instance that is not destroyed.
SessionActive ==
  animationInstanceRef # NullRef /\ instances[animationInstanceRef].alive

\* A step in which reader.onload loaded a document without an alert.
DocumentLoaded_step ==
  lastOp' = "readerOnload" /\ signals' = {} /\ Truthy(animationData')

\* The metadata a document D read from file is said to yield.
ExpectedMetadata(file, D) ==
  [name |-> file.name, size |-> file.size, fr |-> D.fr, ip |-> D.ip,
   op |-> D.op, w |-> D.w, h |-> D.h,
   layers |-> IF D.layers = None THEN 0 ELSE Len(D.layers[1])]

\* C1: in every reachable state at most one instance that has been created
\* and not destroyed exists, and in every step each loadAnimation call comes
\* after a destroy call on every instance that was live when the step began.
C1_SingleSession ==
  /\ [](Cardinality(LiveInstances(instances)) <= 1)
  /\ [][\A k \in 1..Len(engineCalls') :
          engineCalls'[k].op = "loadAnimation" =>
            \A j \in LiveInstances(instances) :
              \E m \in 1..(k - 1) : engineCalls'[m] = Call("destroy", j, 0)]_vars

\* C1 (reached): a session has been replaced: a destroyed instance and its
\* live successor, created in the last step.
C1_Witness ==
  /\ Len(instances) >= 2
  /\ ~instances[Len(instances) - 1].alive
  /\ instances[Len(instances)].alive
  /\ animationInstanceRef = Len(instances)
  /\ \E k \in 1..Len(engineCalls) :
       /\ engineCalls[k] = Call("loadAnimation", Len(instances), 0)
       /\ \E m \in 1..(k - 1) :
            engineCalls[m] = Call("destroy", Len(instances) - 1, 0)

\* C2: every step that loads a document or changes the renderer or loop makes
\* exactly one destroy call (on the instance it replaces; none when there is
\* no instance to replace) followed by exactly one loadAnimation call, and no
\* other destroy or loadAnimation call.
C2_OneDestroyThenOneCreate ==
  [][(DocumentLoaded_step
        \/ settings'.loop # settings.loop
        \/ settings'.renderer # settings.renderer) =>
       LifecycleCalls(engineCalls') =
         (IF SessionActive
            THEN <<Call("destroy", animationInstanceRef, 0)>> ELSE <<>>)
         \o <<Call("loadAnimation", Len(instances) + 1, 0)>>]_vars

\* C3: a step that changes only the speed while a session is active calls
\* setSpeed with the new value on the live instance and keeps the session:
\* the same instance is live afterwards, in the same play state.
C3_SpeedKeepsSession ==
  [][(settings'.speed # settings.speed /\ SessionActive) =>
       /\ engineCalls' = <<Call("setSpeed", animationInstanceRef, settings'.speed)>>
       /\ animationInstanceRef' = animationInstanceRef
       /\ Len(instances') = Len(instances)
       /\ instances'[animationInstanceRef].alive
       /\ instances'[animationInstanceRef].play = instances[animationInstanceRef].play
       /\ isPlaying' = isPlaying]_vars

\* C4: a step that changes loop or the renderer while a document is loaded
\* destroys the current session and creates a new instance from the loaded
\* document with the new loop and renderer values; the new instance is
\* playing and isPlaying is TRUE, whatever the play state was.
C4_RebuildOnLoopOrRenderer ==
  [][((settings'.loop # settings.loop \/ settings'.renderer # settings.renderer)
        /\ Truthy(animationData)) =>
       /\ animationData' = animationData
       /\ SessionActive =>
            /\ ~instances'[animationInstanceRef].alive
            /\ \E k \in 1..Len(engineCalls') :
                 engineCalls'[k] = Call("destroy", animationInstanceRef, 0)
       /\ animationInstanceRef' = Len(instances) + 1
       /\ Len(instances') = Len(instances) + 1
       /\ instances'[animationInstanceRef'].alive
       /\ instances'[animationInstanceRef'].data = animationData
       /\ instances'[animationInstanceRef'].loop = settings'.loop
       /\ instances'[animationInstanceRef'].renderer = settings'.renderer
       /\ instances'[animationInstanceRef'].play = "playing"
       /\ isPlaying' = TRUE]_vars

\* C4 (reached): the loop toggle has rebuilt the session: the old instance is
\* destroyed and the new one plays without looping on the canvas renderer.
C4_Witness ==
  /\ lastOp = "toggleLoop"
  /\ ~settings.loop
  /\ settings.renderer = "canvas"
  /\ animationInstanceRef = Len(instances)
  /\ Len(instances) >= 2
  /\ ~instances[Len(instances) - 1].alive
  /\ instances[animationInstanceRef].alive
  /\ ~instances[animationInstanceRef].loop
  /\ instances[animationInstanceRef].renderer = "canvas"
  /\ instances[animationInstanceRef].play = "playing"
  /\ isPlaying

\* C5: every upload step that raises the parse-failure alert leaves the
\* loaded document, the metadata, the render session and the analysis result
\* as they were.
C5_AlertLeavesStateUnchanged ==
  [][(lastOp' = "readerOnload" /\ "alert" \in signals') =>
       /\ animationData' = animationData
       /\ metadata' = metadata
       /\ animationInstanceRef' = animationInstanceRef
       /\ instances' = instances
       /\ analysis' = analysis]_vars

\* C6: the step in which the read of a file of name n and size s holding a
\* valid document D resolves sets the metadata to name n, size s, fr, ip, op,
\* w, h of D, and layers the length of D.layers, or 0 when D has no layers.
C6_MetadataMatchesDocument ==
  [][\A f \in Files :
       LET p == JSONparse(f.text)
       IN  (/\ lastOp' = "readerOnload"
            /\ BagIn(f.name, reads)
            /\ reads' = reads (-) SetToBag({f.name})
            /\ p.ok
            /\ Truthy(p.value)) =>
             metadata' = Some(ExpectedMetadata(f, p.value))]_vars

\* C6 (reached): the document of the scenario has been loaded: fr 30, ip 0,
\* op 90, w 512, h 512, three layers, 2048 bytes.
C6_Witness ==
  /\ lastOp = "readerOnload"
  /\ animationData = DocA
  /\ metadata = Some([name |-> "a.json", size |-> 2048, fr |-> Some(30),
                      ip |-> Some(0), op |-> Some(90), w |-> Some(512),
                      h |-> Some(512), layers |-> 3])

\* C7: in every reachable state the metadata is present exactly when a
\* document is loaded and its fields are those of the loaded document, and no
\* step changes the document without the metadata or the metadata without
\* the document.
C7_MetadataConsistent ==
  /\ [](/\ (metadata # None) <=> Truthy(animationData)
        /\ metadata # None =>
             /\ metadata[1].fr = animationData.fr
             /\ metadata[1].ip = animationData.ip
             /\ metadata[1].op = animationData.op
             /\ metadata[1].w = animationData.w
             /\ metadata[1].h = animationData.h
             /\ metadata[1].layers =
                  (IF animationData.layers = None
                     THEN 0 ELSE Len(animationData.layers[1])))
  /\ [][(animationData' # animationData) <=> (metadata' # metadata)]_vars

\* C8: at most one analysis request is in flight in every reachable state,
\* and no step taken while a request is pending sends another.
C8_SingleFlight ==
  /\ [](Len(requests) <= 1)
  /\ [][isAnalyzing => Len(requests') <= Len(requests)]_vars

\* C8 (reached): a request is in flight and the button is disabled.
C8_Witness ==
  /\ Len(requests) = 1
  /\ isAnalyzing
  /\ AnalyzeButtonRendered
  /\ AnalyzeButtonDisabled

\* C9: once every read has resolved without an alert, if the file selected
\* last holds a valid document, then the loaded document, the metadata and
\* the render session are those of that file, whatever the order in which the
\* reads resolved.
C9_LastSelectedWins ==
  (/\ reads = EmptyBag
   /\ lastOp = "readerOnload"
   /\ signals = {}
   /\ fileInput # NoFile
   /\ JSONparse(FileNamed(fileInput).text).ok
   /\ Truthy(JSONparse(FileNamed(fileInput).text).value)) =>
    LET f == FileNamed(fileInput)
        D == JSONparse(f.text).value
    IN  /\ animationData = D
        /\ metadata = Some(ExpectedMetadata(f, D))
        /\ SessionActive
        /\ instances[animationInstanceRef].data = D

\* C10: a step in which an analysis request fails (the handler logs the
\* error) sets the analysis result to the fixed failure message and the
\* pending flag to FALSE; every step in which a request resolves leaves the
\* pending flag FALSE; and the pending flag is never set without a request in
\* flight.
C10_FailureSettles ==
  /\ [](isAnalyzing => Len(requests) > 0)
  /\ [][/\ "console.error" \in signals' =>
             analysis' = Some(AnalysisFailed) /\ ~isAnalyzing'
        /\ Len(requests') < Len(requests) => ~isAnalyzing']_vars

\* C10 (reached): a pending request has failed: the failure message is stored
\* and the button is enabled again.
C10_Witness ==
  /\ lastOp = "analyzeResolved"
  /\ "console.error" \in signals
  /\ analysis = Some(AnalysisFailed)
  /\ ~isAnalyzing
  /\ AnalyzeButtonRendered
  /\ ~AnalyzeButtonDisabled

\* C11 (as stated): a step in which a request succeeds stores exactly the
\* text the service returned, the empty text included.
C11_StoresTextVerbatim ==
  [][(lastOp' = "analyzeResolved" /\ response' # None) =>
       analysis' = response']_vars

\* C11 (amended): a step in which a request succeeds stores exactly the text
\* the service returned when that text is not empty, and the fixed text
\* "Could not analyze the animation." when it is empty.
C11_StoresTextOrSubstitute ==
  [][(lastOp' = "analyzeResolved" /\ response' # None) =>
       analysis' = (IF response' = Some("")
                      THEN Some(CouldNotAnalyze) ELSE response')]_vars

\* C11 (reached): a request has succeeded with the empty text and the fixed
\* text is stored in its place.
C11_Witness ==
  /\ lastOp = "analyzeResolved"
  /\ response = Some("")
  /\ analysis = Some(CouldNotAnalyze)
  /\ ~isAnalyzing

\* C12: while the ref has never held an instance (no document has been loaded),
\* play/pause, stop, restart, a speed change and the teardown of the component
\* make no engine call, leave isPlaying and the engine as they were, and
\* raise nothing.
C12_NoSessionNoCall ==
  [][(animationInstanceRef = NullRef
        /\ lastOp' \in {"handlePlayPause", "handleStop", "restart",
                        "handleSpeedChange", "unmount"})
       => /\ engineCalls' = <<>>
          /\ instances' = instances
          /\ animationInstanceRef' = NullRef
          /\ isPlaying' = isPlaying
          /\ signals' = {}]_vars

\* C12 (reached): play/pause has run before any document was loaded, and
\* the flag still has its initial value.
C12_Witness ==
  /\ lastOp = "handlePlayPause"
  /\ animationInstanceRef = NullRef
  /\ instances = <<>>
  /\ engineCalls = <<>>
  /\ isPlaying

\* C13: a change of the background color changes settings.backgroundColor and
\* nothing else: no engine call is made, the instances and the ref are as
\* before, and isPlaying, loop, speed, renderer, the document, its metadata
\* and the analysis result keep their values.
C13_BackgroundOnly ==
  [][lastOp' = "setBackgroundColor"
       => /\ engineCalls' = <<>>
          /\ instances' = instances
          /\ animationInstanceRef' = animationInstanceRef
          /\ isPlaying' = isPlaying
          /\ settings'.backgroundColor # settings.backgroundColor
          /\ settings' = [settings EXCEPT !.backgroundColor = settings'.backgroundColor]
          /\ animationData' = animationData
          /\ metadata' = metadata
          /\ analysis' = analysis
          /\ isAnalyzing' = isAnalyzing]_vars

\* C13 (reached): the background color has been changed while a paused
\* session of a loaded document is live.
C13_Witness ==
  /\ lastOp = "setBackgroundColor"
  /\ settings.backgroundColor # InitialSettings.backgroundColor
  /\ SessionActive
  /\ ~isPlaying
  /\ engineCalls = <<>>

\* C14: every step in which reader.onload loads a document without an alert
\* ends with no analysis result, whether the result before the step was
\* absent, a returned text, the substitute or the failure message.
C14_LoadClearsAnalysis ==
  [][DocumentLoaded_step => analysis' = None]_vars

\* C14 (reached): a second document has been loaded without an alert, after
\* which no analysis result is stored.
C14_Witness ==
  /\ lastOp = "readerOnload"
  /\ signals = {}
  /\ animationData = DocB
  /\ Len(instances) >= 2
  /\ analysis = None

\* C15: in every state between two steps, a loaded document has exactly one
\* live instance, the one the ref holds, rendering that document; and every
\* step that destroys a live instance while a document stays loaded creates
\* the replacement later in the same step, so no handler runs in between.
C15_RebuildAtomic ==
  /\ [](Truthy(animationData) =>
          /\ SessionActive
          /\ LiveInstances(instances) = {animationInstanceRef}
          /\ instances[animationInstanceRef].data = animationData)
  /\ [][\A k \in 1..Len(engineCalls') :
          (/\ engineCalls'[k].op = "destroy"
           /\ engineCalls'[k].id \in LiveInstances(instances)
           /\ Truthy(animationData'))
            => \E j \in (k + 1)..Len(engineCalls') :
                 engineCalls'[j].op = "loadAnimation"]_vars

\* C15 (reached): the session of a loaded document has been rebuilt twice
\* by setting changes, and the third instance is the only live one.
C15_Witness ==
  /\ lastOp \in {"toggleLoop", "selectRenderer", "handleSpeedChange"}
  /\ Truthy(animationData)
  /\ Len(instances) = 3
  /\ LiveInstances(instances) = {3}
  /\ animationInstanceRef = 3
  /\ Call("destroy", 2, 0) \in {engineCalls[k] : k \in 1..Len(engineCalls)}
  /\ Call("loadAnimation", 3, 0) \in {engineCalls[k] : k \in 1..Len(engineCalls)}

\* C16: whenever a session is active, isPlaying is true exactly when the live
\* instance is playing (after a load, a rebuild, a resume or a restart) and
\* false when it is paused or stopped.
C16_FlagAgreesWithInstance ==
  SessionActive =>
    (isPlaying <=> instances[animationInstanceRef].play = "playing")

\* C17: whenever a session is active, the live instance was created with the
\* current renderer and loop values and the last speed set on it is
\* settings.speed.
C17_InstanceMatchesSettings ==
  SessionActive =>
    /\ instances[animationInstanceRef].renderer = settings.renderer
    /\ instances[animationInstanceRef].loop = settings.loop
    /\ instances[animationInstanceRef].speed = settings.speed

\* C17 (reached): after a load and changes of the renderer and the speed, the
\* live instance has the changed configuration.
C17_Witness ==
  /\ SessionActive
  /\ settings.renderer # InitialSettings.renderer
  /\ settings.speed # InitialSettings.speed
  /\ instances[animationInstanceRef].renderer = settings.renderer
  /\ instances[animationInstanceRef].loop = settings.loop
  /\ instances[animationInstanceRef].speed = settings.speed

\* C18: whenever a request completes while a document is loaded, the request
\* is one that was issued for that document (its prompt is the prompt of the
\* loaded document and its metadata), so the result stored by the completion
\* belongs to the document shown.
C18_ResultIsForCurrentDocument ==
  [][(lastOp' = "analyzeResolved" /\ Truthy(animationData) /\ metadata # None)
       => \E i \in 1..Len(requests) :
            /\ requests' = RemoveAt(requests, i)
            /\ requests[i] = Prompt(animationData, metadata)]_vars

====
